---------------------------- MODULE Spec2Model ----------------------------
(***************************************************************************)
(* Model of the scoring websocket session of displays.go                   *)
(* (ScoringDisplayWebsocketHandler): one connection bound to one           *)
(* alliance's RealtimeScore, handling inbound messages one at a time.      *)
(* A step of the model is one iteration of the read loop: read a message,  *)
(* run the switch on its type, write "score" or an error back.             *)
(***************************************************************************)
EXTENDS Integers, Sequences, FiniteSets, TLC

VARIABLES
    AutoCommitted,       \* (*score).AutoCommitted
    TeleopCommitted,     \* (*score).TeleopCommitted
    AutoPreloadedBalls,  \* (*score).AutoPreloadedBalls
    CurrentScore,        \* (*score).CurrentScore: the auto counters and Cycles
    CurrentCycle,        \* (*score).CurrentCycle
    undoAutoScores,      \* (*score).undoAutoScores
    undoCycles,          \* (*score).undoCycles
    messageType,         \* type of the message last returned by websocket.Read()
    data,                \* payload of that message
    written,             \* type of the message the loop last passed to Write
    message,             \* payload of the message the loop last wrote
    nread,               \* number of messages read on this connection
    \* The referee (foul) sessions: RefereeDisplayWebsocketHandler
    Fouls,               \* mainArena.red/blueRealtimeScore.Fouls, by alliance
    FoulsCommitted,      \* mainArena.red/blueRealtimeScore.FoulsCommitted
    refClient,           \* the referee connection that read the last message
    refMessageType,      \* type of the message it read
    refData,             \* payload of the message it read
    refWritten,          \* by connection: type of the message last written to it
    refReloads,          \* by connection: number of "reload" messages written to it
    refRead,             \* number of messages read on the referee connections
    \* Scoring connections of one alliance handled by concurrent goroutines
    cpc,                 \* by connection: the statement its handler is at
    ccmd,                \* by connection: messageType of the message it handles
    ctmp,                \* by connection: the value loaded by Assists += 1
    cread,               \* number of messages read on these connections
    \* One session of any kind, with its relay goroutine
    kind,                \* "scoring", "foul" or "announcer"; "none": no session
    loopPc,              \* where the handler's goroutine is
    loopToWrite,         \* types of the messages the handler is about to write
    relayPc,             \* where the relay goroutine is
    relayMsg,            \* type of the message the relay goroutine is writing
    writeHolder,         \* who is inside a write to the websocket
    listeners,           \* by notifier: the channel Listen() returned
    deferred,            \* the handler's deferred calls, in the order deferred
    wsClosed,            \* websocket.Close() was called
    clientGone,          \* the client closed the connection
    annMessageType,      \* announcer session: type of the message last read
    sRead                \* number of messages the session has read

vars == <<AutoCommitted, TeleopCommitted, AutoPreloadedBalls, CurrentScore,
          CurrentCycle, undoAutoScores, undoCycles, messageType, data,
          written, message, nread>>

\* The variables of the RealtimeScore, without the connection's own state.
scoreState == <<AutoCommitted, TeleopCommitted, AutoPreloadedBalls, CurrentScore,
                CurrentCycle, undoAutoScores, undoCycles>>

\* The state of the referee sessions and of the foul ledger.
foulVars == <<Fouls, FoulsCommitted, refClient, refMessageType, refData,
              refWritten, refReloads, refRead>>

\* The handlers of the concurrent scoring connections.
concVars == <<cpc, ccmd, ctmp, cread>>

\* The session with its relay goroutine.
sessVars == <<kind, loopPc, loopToWrite, relayPc, relayMsg, writeHolder,
              listeners, deferred, wsClosed, clientGone, annMessageType, sRead>>

\* Number of messages one connection reads in a checked run.
MaxMessages == 6

\* Number of messages the session with a relay goroutine reads in a checked run.
MaxSessionMessages == 2

\* Number of notifications that can wait in a listener's channel.
MaxQueued == 1

\* Number of messages the concurrent scoring connections read in a checked run.
MaxConcMessages == 3

\* Number of messages the referee connections read in a checked run.
MaxFoulMessages == 4

-----------------------------------------------------------------------------
(* Values *)

\* Cycle{}: the zero value of the Cycle struct.
EmptyCycle ==
    [Assists |-> 0, Truss |-> FALSE, Catch |-> FALSE,
     ScoredHigh |-> FALSE, ScoredLow |-> FALSE, DeadBall |-> FALSE]

\* The zero value of the Score struct held in CurrentScore.
EmptyScore ==
    [AutoMobilityBonuses |-> 0, AutoHighHot |-> 0, AutoHigh |-> 0,
     AutoLowHot |-> 0, AutoLow |-> 0, AutoClearHigh |-> 0,
     AutoClearLow |-> 0, AutoClearDead |-> 0, Cycles |-> <<>>]

\* A payload that is not a JSON string (nil, a number, an object).
NotAString == [isString |-> FALSE, chars |-> <<>>]

\* A JSON string payload, as the sequence of its characters.
Str(cs) == [isString |-> TRUE, chars |-> cs]

\* The payloads a client sends with "preload".
PreloadPayloads ==
    { NotAString, Str(<<"1">>), Str(<<"2">>), Str(<<"-", "1">>),
      Str(<<"x">>), Str(<<"1", "x">>), Str(<<>>) }

-----------------------------------------------------------------------------
(* strconv.Atoi, on strings short enough that the value cannot overflow *)

Digits == {"0", "1", "2", "3", "4", "5", "6", "7", "8", "9"}

DigitVal(c) ==
    CASE c = "0" -> 0 [] c = "1" -> 1 [] c = "2" -> 2 [] c = "3" -> 3
      [] c = "4" -> 4 [] c = "5" -> 5 [] c = "6" -> 6 [] c = "7" -> 7
      [] c = "8" -> 8 [] c = "9" -> 9

RECURSIVE DecimalVal(_)
DecimalVal(cs) ==
    IF cs = <<>> THEN 0
    ELSE 10 * DecimalVal(SubSeq(cs, 1, Len(cs) - 1)) + DigitVal(cs[Len(cs)])

\* Atoi(s) = [val, ok]: an optional sign and one or more decimal digits;
\* on a syntax error the value is 0 and ok is FALSE.
Atoi(cs) ==
    LET signed == cs # <<>> /\ cs[1] \in {"+", "-"}
        body   == IF signed THEN Tail(cs) ELSE cs
        valid  == body # <<>> /\ \A i \in 1..Len(body) : body[i] \in Digits
    IN  IF ~valid THEN [val |-> 0, ok |-> FALSE]
        ELSE [val |-> IF signed /\ cs[1] = "-" THEN 0 - DecimalVal(body)
                      ELSE DecimalVal(body),
              ok  |-> TRUE]

\* The JSON of *score as websocket.Write("score", *score) sends it: the
\* exported scoring fields of the RealtimeScore (the undo stacks are
\* unexported; the foul fields are not touched by this session).
ScoreMessage ==
    [AutoCommitted |-> AutoCommitted, TeleopCommitted |-> TeleopCommitted,
     AutoPreloadedBalls |-> AutoPreloadedBalls,
     CurrentScore |-> CurrentScore, CurrentCycle |-> CurrentCycle]

\* The payload of an error message (its text is not modelled).
ErrorMessage == [error |-> TRUE]

-----------------------------------------------------------------------------
(* Initial state: a fresh RealtimeScore and a connection that was just     *)
(* opened and has been sent the current score.                             *)

Init ==
    /\ AutoCommitted = FALSE
    /\ TeleopCommitted = FALSE
    /\ AutoPreloadedBalls = 0
    /\ CurrentScore = EmptyScore
    /\ CurrentCycle = EmptyCycle
    /\ undoAutoScores = <<>>
    /\ undoCycles = <<>>
    /\ messageType = "none"
    /\ data = NotAString
    /\ written = "score"
    /\ message = ScoreMessage
    /\ nread = 0

\* websocket.Read() returns a message of type t with payload d.
Read(t, d) ==
    /\ nread < MaxMessages
    /\ nread' = nread + 1
    /\ messageType' = t
    /\ data' = d

\* WriteScore sending the score as it was before the command.
WriteScoreStale == written' = "score" /\ message' = ScoreMessage

\* The write that ends the handling of a command: *score is read when the
\* write is made, after the switch.
WriteScore == written' = "score" /\ message' = ScoreMessage'

\* websocket.WriteError followed by continue.
WriteError == written' = "error" /\ message' = ErrorMessage


-----------------------------------------------------------------------------
(* Autonomous-period commands *)

\* case "preload": the count is assigned before the error of Atoi is looked at.
HandlePreload ==
    \E d \in PreloadPayloads :
        /\ Read("preload", d)
        /\ IF ~AutoCommitted
           THEN IF ~d.isString
                THEN /\ WriteError
                     /\ UNCHANGED scoreState
                ELSE /\ AutoPreloadedBalls' = Atoi(d.chars).val
                     /\ UNCHANGED <<AutoCommitted, TeleopCommitted, CurrentScore,
                                    CurrentCycle, undoAutoScores, undoCycles>>
                     /\ IF Atoi(d.chars).ok THEN WriteScore ELSE WriteError
           ELSE /\ UNCHANGED scoreState
                /\ WriteScore

\* The body shared by the autonomous counters: push a snapshot of
\* CurrentScore and add one to the counter named field.
AutoIncrement(field) ==
    /\ undoAutoScores' = Append(undoAutoScores, CurrentScore)
    /\ CurrentScore' = [CurrentScore EXCEPT ![field] = @ + 1]
    /\ UNCHANGED <<AutoCommitted, TeleopCommitted, AutoPreloadedBalls,
                   CurrentCycle, undoCycles>>

\* Push a snapshot of CurrentCycle and replace the cycle by c.
CycleUpdate(c) ==
    /\ undoCycles' = Append(undoCycles, CurrentCycle)
    /\ CurrentCycle' = c
    /\ UNCHANGED <<AutoCommitted, TeleopCommitted, AutoPreloadedBalls,
                   CurrentScore, undoAutoScores>>

\* case "mobility"
HandleMobility ==
    /\ Read("mobility", NotAString)
    /\ IF ~AutoCommitted
       THEN AutoIncrement("AutoMobilityBonuses")
       ELSE UNCHANGED scoreState
    /\ WriteScore

\* case "scoredHighHot"
HandleScoredHighHot ==
    /\ Read("scoredHighHot", NotAString)
    /\ IF ~AutoCommitted
       THEN AutoIncrement("AutoHighHot")
       ELSE UNCHANGED scoreState
    /\ WriteScore

\* case "scoredLowHot"
HandleScoredLowHot ==
    /\ Read("scoredLowHot", NotAString)
    /\ IF ~AutoCommitted
       THEN AutoIncrement("AutoLowHot")
       ELSE UNCHANGED scoreState
    /\ WriteScore

-----------------------------------------------------------------------------
(* Commands that act on the cycle *)

\* SetScoredHigh without the assignment that clears DeadBall.
SetScoredHighKeepDead(c) ==
    [c EXCEPT !.ScoredHigh = TRUE, !.ScoredLow = FALSE]

\* The three assignments of the teleop branch of "scoredHigh".
SetScoredHigh(c) ==
    [c EXCEPT !.ScoredHigh = TRUE, !.ScoredLow = FALSE, !.DeadBall = FALSE]

\* The three assignments of the teleop branch of "scoredLow".
SetScoredLow(c) ==
    [c EXCEPT !.ScoredHigh = FALSE, !.ScoredLow = TRUE, !.DeadBall = FALSE]

\* The three assignments of "deadBall".
SetDeadBall(c) ==
    [c EXCEPT !.ScoredHigh = FALSE, !.ScoredLow = FALSE, !.DeadBall = TRUE]

\* case "scoredHigh"
HandleScoredHigh ==
    /\ Read("scoredHigh", NotAString)
    /\ IF ~AutoCommitted
       THEN AutoIncrement("AutoHigh")
       ELSE IF ~TeleopCommitted /\ ~CurrentCycle.ScoredHigh
            THEN CycleUpdate(SetScoredHigh(CurrentCycle))
            ELSE UNCHANGED scoreState
    /\ WriteScore

\* case "scoredLow"
HandleScoredLow ==
    /\ Read("scoredLow", NotAString)
    /\ IF ~AutoCommitted
       THEN AutoIncrement("AutoLow")
       ELSE IF ~TeleopCommitted /\ ~CurrentCycle.ScoredLow
            THEN CycleUpdate(SetScoredLow(CurrentCycle))
            ELSE UNCHANGED scoreState
    /\ WriteScore

\* AssistGuard with the cap off by one (<= 3 for < 3).
AssistGuardOffByOne == ~TeleopCommitted /\ CurrentCycle.Assists <= 3

\* The condition of case "assist".
AssistGuard == ~TeleopCommitted /\ CurrentCycle.Assists < 3

\* case "assist"
HandleAssist ==
    /\ Read("assist", NotAString)
    /\ IF AssistGuard
       THEN CycleUpdate([CurrentCycle EXCEPT !.Assists = @ + 1])
       ELSE UNCHANGED scoreState
    /\ WriteScore

\* The condition of case "truss".
TrussGuard == ~TeleopCommitted /\ ~CurrentCycle.Truss

\* case "truss"
HandleTruss ==
    /\ Read("truss", NotAString)
    /\ IF TrussGuard
       THEN CycleUpdate([CurrentCycle EXCEPT !.Truss = TRUE])
       ELSE UNCHANGED scoreState
    /\ WriteScore

\* CatchGuard without the test of Truss.
CatchGuardNoTruss == ~TeleopCommitted /\ ~CurrentCycle.Catch

\* The condition of case "catch".
CatchGuard == ~TeleopCommitted /\ ~CurrentCycle.Catch /\ CurrentCycle.Truss

\* case "catch"
HandleCatch ==
    /\ Read("catch", NotAString)
    /\ IF CatchGuard
       THEN CycleUpdate([CurrentCycle EXCEPT !.Catch = TRUE])
       ELSE UNCHANGED scoreState
    /\ WriteScore

\* The condition of case "deadBall".
DeadBallGuard == ~TeleopCommitted /\ ~CurrentCycle.DeadBall

\* case "deadBall"
HandleDeadBall ==
    /\ Read("deadBall", NotAString)
    /\ IF DeadBallGuard
       THEN CycleUpdate(SetDeadBall(CurrentCycle))
       ELSE UNCHANGED scoreState
    /\ WriteScore

-----------------------------------------------------------------------------
(* commit, commitMatch, undo *)

\* The cycle has an outcome: the condition under which "commit" acts on it.
HasOutcome(c) == c.ScoredHigh \/ c.ScoredLow \/ c.DeadBall

\* The left side of the leftover-ball comparison of "commit".
Remaining ==
    AutoPreloadedBalls - CurrentScore.AutoHighHot - CurrentScore.AutoHigh
        - CurrentScore.AutoLowHot - CurrentScore.AutoLow
        - CurrentScore.AutoClearHigh - CurrentScore.AutoClearLow
        - CurrentScore.AutoClearDead

\* The score after the cycle c was counted as a ball left over from autonomous.
ClearLeftover(s, c) ==
    IF c.ScoredHigh THEN [s EXCEPT !.AutoClearHigh = @ + 1]
    ELSE IF c.ScoredLow THEN [s EXCEPT !.AutoClearLow = @ + 1]
    ELSE [s EXCEPT !.AutoClearDead = @ + 1]

\* The score after the cycle c was appended to the committed cycles.
AppendCycle(s, c) == [s EXCEPT !.Cycles = Append(@, c)]

\* CommitScore with the comparison off by one (>= 0 for > 0).
CommitScoreOffByOne ==
    IF Remaining >= 0
    THEN ClearLeftover(CurrentScore, CurrentCycle)
    ELSE AppendCycle(CurrentScore, CurrentCycle)

\* CurrentScore after "commit" of a cycle with an outcome in teleop.
CommitScore ==
    IF Remaining > 0
    THEN ClearLeftover(CurrentScore, CurrentCycle)
    ELSE AppendCycle(CurrentScore, CurrentCycle)

\* case "commit"
HandleCommit ==
    /\ Read("commit", NotAString)
    /\ IF ~AutoCommitted
       THEN /\ AutoCommitted' = TRUE
            /\ UNCHANGED <<TeleopCommitted, AutoPreloadedBalls, CurrentScore,
                           CurrentCycle, undoAutoScores, undoCycles>>
       ELSE IF ~TeleopCommitted /\ HasOutcome(CurrentCycle)
            THEN /\ CurrentScore' = CommitScore
                 /\ CurrentCycle' = EmptyCycle
                 /\ undoCycles' = <<>>
                 /\ UNCHANGED <<AutoCommitted, TeleopCommitted,
                                AutoPreloadedBalls, undoAutoScores>>
            ELSE UNCHANGED scoreState
    /\ WriteScore

\* CommitMatchScore with the leftover-ball check of "commit" applied.
CommitMatchScoreLeftover ==
    IF CurrentCycle # EmptyCycle THEN CommitScore ELSE CurrentScore

\* CurrentScore after "commitMatch".
CommitMatchScore ==
    IF CurrentCycle # EmptyCycle
    THEN AppendCycle(CurrentScore, CurrentCycle)
    ELSE CurrentScore

\* case "commitMatch"
HandleCommitMatch ==
    /\ Read("commitMatch", NotAString)
    /\ AutoCommitted' = TRUE
    /\ TeleopCommitted' = TRUE
    /\ CurrentScore' = CommitMatchScore
    /\ UNCHANGED <<AutoPreloadedBalls, CurrentCycle, undoAutoScores, undoCycles>>
    /\ WriteScore

\* s[len(s)-1] and s[0 : len(s)-1] of a non-empty slice.
Last(s) == s[Len(s)]
ButLast(s) == SubSeq(s, 1, Len(s) - 1)

\* UndoAutoGuard without the test of AutoCommitted.
UndoAutoGuardNoPhase == Len(undoAutoScores) > 0

\* The condition of the first branch of case "undo".
UndoAutoGuard == ~AutoCommitted /\ Len(undoAutoScores) > 0

\* case "undo"
HandleUndo ==
    /\ Read("undo", NotAString)
    /\ IF UndoAutoGuard
       THEN /\ CurrentScore' = Last(undoAutoScores)
            /\ undoAutoScores' = ButLast(undoAutoScores)
            /\ UNCHANGED <<AutoCommitted, TeleopCommitted, AutoPreloadedBalls,
                           CurrentCycle, undoCycles>>
       ELSE IF ~TeleopCommitted /\ Len(undoCycles) > 0
            THEN /\ CurrentCycle' = Last(undoCycles)
                 /\ undoCycles' = ButLast(undoCycles)
                 /\ UNCHANGED <<AutoCommitted, TeleopCommitted,
                                AutoPreloadedBalls, CurrentScore, undoAutoScores>>
            ELSE UNCHANGED scoreState
    /\ WriteScore

\* HandleInvalid without the continue: the loop body ends in the write of
\* the score.
HandleInvalidThenScore ==
    /\ Read("invalid", NotAString)
    /\ UNCHANGED scoreState
    /\ WriteScore

\* default: a message type the switch does not know.
HandleInvalid ==
    /\ Read("invalid", NotAString)
    /\ WriteError
    /\ UNCHANGED scoreState

-----------------------------------------------------------------------------

(***************************************************************************)
(* The referee session (RefereeDisplayWebsocketHandler): connections that  *)
(* all act on the arena's two foul lists.  A step is one iteration of the  *)
(* read loop of one connection.                                            *)
(***************************************************************************)

Alliances == {"red", "blue"}

\* The referee connections open during a run.
RefClients == {1, 2}

\* The Alliance strings clients send; any string other than "red" takes the
\* else branch of the handler.
AllianceArgs == {"red", "blue", "green"}

\* Foul{TeamId, Rule, IsTechnical, TimeInMatchSec}
Foul(team, rule, tech, time) ==
    [TeamId |-> team, Rule |-> rule, IsTechnical |-> tech, TimeInMatchSec |-> time]

\* Values of mainArena.MatchTimeSec() when a foul is added.
MatchTimes == {0, 1}

\* The TeamId, Rule, IsTechnical arguments clients send with "addFoul".
AddFoulArgs == { <<1, "G3", FALSE>> }

\* The fouls clients name in "deleteFoul": the fouls that can be in a list,
\* and fouls that differ from one of them in exactly one field.
DeleteFoulArgs ==
    { Foul(1, "G3", FALSE, 0), Foul(1, "G3", FALSE, 1), Foul(2, "G3", FALSE, 0),
      Foul(1, "G5", FALSE, 0), Foul(1, "G3", TRUE, 0) }

\* A payload mapstructure.Decode rejects (not a map, or a field of the wrong type).
Undecodable == [decodes |-> FALSE]

\* A payload that decodes into args.
Decoded(alliance, foul) == [decodes |-> TRUE, Alliance |-> alliance, Foul |-> foul]

\* The list the handler picks for args.Alliance.
ListOf(alliance) == IF alliance = "red" THEN "red" ELSE "blue"

InitFoul ==
    /\ Fouls = [a \in Alliances |-> <<>>]
    /\ FoulsCommitted = [a \in Alliances |-> FALSE]
    /\ refClient = 0
    /\ refMessageType = "none"
    /\ refData = Undecodable
    /\ refWritten = [c \in RefClients |-> "none"]
    /\ refReloads = [c \in RefClients |-> 0]
    /\ refRead = 0

\* websocket.Read() on connection c returns a message of type t with payload d.
RefRead(c, t, d) ==
    /\ refRead < MaxFoulMessages
    /\ refRead' = refRead + 1
    /\ refClient' = c
    /\ refMessageType' = t
    /\ refData' = d

\* RefWriteReload writing the reload to every referee connection.
RefWriteReloadAll(c) ==
    /\ refWritten' = [x \in RefClients |-> "reload"]
    /\ refReloads' = [x \in RefClients |-> refReloads[x] + 1]

\* websocket.Write("reload", nil) at the end of the loop body of connection c.
RefWriteReload(c) ==
    /\ refWritten' = [refWritten EXCEPT ![c] = "reload"]
    /\ refReloads' = [refReloads EXCEPT ![c] = @ + 1]

\* websocket.WriteError(...) followed by continue, on connection c.
RefWriteError(c) ==
    /\ refWritten' = [refWritten EXCEPT ![c] = "error"]
    /\ UNCHANGED refReloads

\* case "addFoul"
HandleAddFoul ==
    \E c \in RefClients :
        \/ /\ RefRead(c, "addFoul", Undecodable)
           /\ RefWriteError(c)
           /\ UNCHANGED <<Fouls, FoulsCommitted>>
        \/ \E al \in AllianceArgs, x \in AddFoulArgs, t \in MatchTimes :
              /\ RefRead(c, "addFoul", Decoded(al, Foul(x[1], x[2], x[3], t)))
              /\ Fouls' = [Fouls EXCEPT ![ListOf(al)] = Append(@, Foul(x[1], x[2], x[3], t))]
              /\ UNCHANGED FoulsCommitted
              /\ RefWriteReload(c)

\* The index of the first entry of fouls equal to f, 0 when there is none:
\* where the range loop of "deleteFoul" stops.
RECURSIVE FirstEqual(_, _, _)
FirstEqual(fouls, f, i) ==
    IF i > Len(fouls) THEN 0
    ELSE IF fouls[i] = f THEN i
    ELSE FirstEqual(fouls, f, i + 1)

\* append((*fouls)[:i], (*fouls)[i+1:]...) for the entry at (1-based) index i.
RemoveAt(fouls, i) == SubSeq(fouls, 1, i - 1) \o SubSeq(fouls, i + 1, Len(fouls))

\* DeleteFrom removing every entry equal to f (the loop without its break).
RECURSIVE DeleteEvery(_, _)
DeleteEvery(fouls, f) ==
    IF fouls = <<>> THEN <<>>
    ELSE IF Head(fouls) = f THEN DeleteEvery(Tail(fouls), f)
    ELSE <<Head(fouls)>> \o DeleteEvery(Tail(fouls), f)

\* The list after the loop of "deleteFoul" ran over it.
DeleteFrom(fouls, f) ==
    IF FirstEqual(fouls, f, 1) = 0 THEN fouls
    ELSE RemoveAt(fouls, FirstEqual(fouls, f, 1))

\* case "deleteFoul"
HandleDeleteFoul ==
    \E c \in RefClients :
        \/ /\ RefRead(c, "deleteFoul", Undecodable)
           /\ RefWriteError(c)
           /\ UNCHANGED <<Fouls, FoulsCommitted>>
        \/ \E al \in AllianceArgs, f \in DeleteFoulArgs :
              /\ RefRead(c, "deleteFoul", Decoded(al, f))
              /\ Fouls' = [Fouls EXCEPT ![ListOf(al)] = DeleteFrom(@, f)]
              /\ UNCHANGED FoulsCommitted
              /\ RefWriteReload(c)

\* CommitFouls setting the flag of the red alliance only.
CommitFoulsRedOnly == [FoulsCommitted EXCEPT !["red"] = TRUE]

\* The two assignments of case "commitMatch" of the referee session.
CommitFouls == [a \in Alliances |-> TRUE]

\* case "commitMatch" of the referee session
HandleFoulCommitMatch ==
    \E c \in RefClients :
        /\ RefRead(c, "commitMatch", Undecodable)
        /\ FoulsCommitted' = CommitFouls
        /\ UNCHANGED Fouls
        /\ RefWriteReload(c)

\* default of the referee session
HandleFoulInvalid ==
    \E c \in RefClients :
        /\ RefRead(c, "invalid", Undecodable)
        /\ RefWriteError(c)
        /\ UNCHANGED <<Fouls, FoulsCommitted>>

(***************************************************************************)
(* Two scoring connections of the same alliance.  net/http runs each       *)
(* handler in its own goroutine and the handler takes no lock, so the      *)
(* statements of two handlers interleave on the shared RealtimeScore.      *)
(* The steps are the statements of case "assist" and case "undo"; the      *)
(* increment is a load and a store.                                        *)
(***************************************************************************)

Conns == {1, 2}

InitConc ==
    /\ cpc = [c \in Conns |-> "read"]
    /\ ccmd = [c \in Conns |-> "none"]
    /\ ctmp = [c \in Conns |-> 0]
    /\ cread = 0

\* What a concurrent handler step leaves alone besides the cycle and its stack.
ConcFrame ==
    UNCHANGED <<AutoCommitted, TeleopCommitted, AutoPreloadedBalls, CurrentScore,
                undoAutoScores, messageType, data, written, message, nread,
                foulVars, sessVars>>

Goto(c, pc) == cpc' = [cpc EXCEPT ![c] = pc]

\* websocket.Read() on connection c
ConcRead(c) ==
    /\ cpc[c] = "read"
    /\ cread < MaxConcMessages
    /\ cread' = cread + 1
    /\ \E t \in {"assist", "undo"} : ccmd' = [ccmd EXCEPT ![c] = t]
    /\ Goto(c, "guard")
    /\ UNCHANGED <<ctmp, CurrentCycle, undoCycles>>
    /\ ConcFrame

\* The if of case "assist"
ConcAssistGuard(c) ==
    /\ cpc[c] = "guard" /\ ccmd[c] = "assist"
    /\ Goto(c, IF AssistGuard THEN "push" ELSE "write")
    /\ UNCHANGED <<ccmd, ctmp, cread, CurrentCycle, undoCycles>>
    /\ ConcFrame

\* undoCycles = append(undoCycles, CurrentCycle)
ConcAssistPush(c) ==
    /\ cpc[c] = "push"
    /\ undoCycles' = Append(undoCycles, CurrentCycle)
    /\ Goto(c, "load")
    /\ UNCHANGED <<ccmd, ctmp, cread, CurrentCycle>>
    /\ ConcFrame

\* CurrentCycle.Assists += 1: the load
ConcAssistLoad(c) ==
    /\ cpc[c] = "load"
    /\ ctmp' = [ctmp EXCEPT ![c] = CurrentCycle.Assists]
    /\ Goto(c, "store")
    /\ UNCHANGED <<ccmd, cread, CurrentCycle, undoCycles>>
    /\ ConcFrame

\* CurrentCycle.Assists += 1: the store
ConcAssistStore(c) ==
    /\ cpc[c] = "store"
    /\ CurrentCycle' = [CurrentCycle EXCEPT !.Assists = ctmp[c] + 1]
    /\ Goto(c, "write")
    /\ UNCHANGED <<ccmd, ctmp, cread, undoCycles>>
    /\ ConcFrame

\* The conditions of case "undo"; no auto snapshot exists in these runs, so
\* the first branch is never the one taken.
ConcUndoGuard(c) ==
    /\ cpc[c] = "guard" /\ ccmd[c] = "undo"
    /\ ~UndoAutoGuard
    /\ Goto(c, IF ~TeleopCommitted /\ Len(undoCycles) > 0 THEN "restore" ELSE "write")
    /\ UNCHANGED <<ccmd, ctmp, cread, CurrentCycle, undoCycles>>
    /\ ConcFrame

\* CurrentCycle = undoCycles[len(undoCycles)-1]; the index expression
\* panics when the other handler has emptied the stack meanwhile.
ConcUndoRestore(c) ==
    /\ cpc[c] = "restore"
    /\ IF Len(undoCycles) = 0
       THEN Goto(c, "panicked") /\ UNCHANGED CurrentCycle
       ELSE Goto(c, "pop") /\ CurrentCycle' = Last(undoCycles)
    /\ UNCHANGED <<ccmd, ctmp, cread, undoCycles>>
    /\ ConcFrame

\* undoCycles = undoCycles[0 : len(undoCycles)-1]; the slice expression
\* panics when the stack is empty.
ConcUndoPop(c) ==
    /\ cpc[c] = "pop"
    /\ IF Len(undoCycles) = 0
       THEN Goto(c, "panicked") /\ UNCHANGED undoCycles
       ELSE Goto(c, "write") /\ undoCycles' = ButLast(undoCycles)
    /\ UNCHANGED <<ccmd, ctmp, cread, CurrentCycle>>
    /\ ConcFrame

\* websocket.Write("score", *score), then back to the top of the loop
ConcWrite(c) ==
    /\ cpc[c] = "write"
    /\ Goto(c, "read")
    /\ UNCHANGED <<ccmd, ctmp, cread, CurrentCycle, undoCycles>>
    /\ ConcFrame

(***************************************************************************)
(* One session with its relay goroutine, from the point where the          *)
(* websocket exists and the listeners are registered: the writes made on   *)
(* connection, the goroutine that relays notifications, the read loop and  *)
(* the deferred calls that run when the handler returns.  A write is two   *)
(* steps, entering and leaving websocket.Write.                            *)
(***************************************************************************)

Kinds == {"scoring", "foul", "announcer"}

Notifiers == {"matchLoadTeams", "matchTime", "scorePosted"}

\* The notifiers whose Listen() the handler of kind k calls.
ListenersOf(k) ==
    IF k = "announcer" THEN {"matchLoadTeams", "matchTime", "scorePosted"}
    ELSE IF k \in {"scoring", "foul"} THEN {"matchLoadTeams"}
    ELSE {}

\* The deferred calls of the handler of kind k, in the order they are
\* deferred; they run last to first.
DeferredCallsNoClose(k) == << "websocket.Close" >>

DeferredCalls(k) ==
    IF k = "announcer"
    THEN << "websocket.Close", "matchLoadTeams", "matchTime", "scorePosted" >>
    ELSE << "websocket.Close", "matchLoadTeams" >>

\* The writes a handler of kind k makes before it starts the relay goroutine.
FirstWrites(k) ==
    IF k = "announcer" THEN << "matchTiming", "matchTime" >>
    ELSE IF k = "scoring" THEN << "score" >>
    ELSE << >>

\* The message the relay goroutine of kind k writes for a notification of n.
RelayMessage(k, n) ==
    IF k = "scoring" THEN "score"
    ELSE IF k = "announcer" /\ n = "matchTime" THEN "matchTime"
    ELSE "reload"

\* No session with a relay goroutine (the other specifications).
InitNoSession ==
    /\ kind = "none"
    /\ loopPc = "done"
    /\ loopToWrite = << >>
    /\ relayPc = "notstarted"
    /\ relayMsg = "none"
    /\ writeHolder = "none"
    /\ listeners = [n \in Notifiers |-> [closed |-> FALSE, queued |-> 0]]
    /\ deferred = << >>
    /\ wsClosed = FALSE
    /\ clientGone = FALSE
    /\ annMessageType = "none"
    /\ sRead = 0

InitSession ==
    /\ kind \in Kinds
    /\ loopPc = IF FirstWrites(kind) = << >> THEN "spawn" ELSE "write"
    /\ loopToWrite = FirstWrites(kind)
    /\ relayPc = "notstarted"
    /\ relayMsg = "none"
    /\ writeHolder = "none"
    /\ listeners = [n \in Notifiers |-> [closed |-> FALSE, queued |-> 0]]
    /\ deferred = DeferredCalls(kind)
    /\ wsClosed = FALSE
    /\ clientGone = FALSE
    /\ annMessageType = "none"
    /\ sRead = 0

\* websocket.Write without a mutex: a writer enters at any time.
WriteLockFreeNoMutex == TRUE

\* websocket.Write serializes the writers of one connection: a writer enters
\* only when no other writer is inside.
WriteLockFree == writeHolder = "none"

\* The results a write can have: it fails once websocket.Close() was called,
\* it can fail once the client is gone, it succeeds otherwise.
WriteResults ==
    IF wsClosed THEN {FALSE}
    ELSE IF clientGone THEN {TRUE, FALSE}
    ELSE {TRUE}

\* What steps of the session leave alone outside the session.
SessFrame == UNCHANGED <<vars, foulVars, concVars>>

\* The client closes the connection.
ClientClose ==
    /\ kind \in Kinds
    /\ ~clientGone
    /\ loopPc # "done"
    /\ clientGone' = TRUE
    /\ UNCHANGED <<kind, loopPc, loopToWrite, relayPc, relayMsg, writeHolder,
                   listeners, deferred, wsClosed, annMessageType, sRead>>
    /\ SessFrame

\* A notifier delivers a notification to the listener the session registered.
Notify ==
    \E n \in ListenersOf(kind) :
        /\ ~listeners[n].closed
        /\ listeners[n].queued < MaxQueued
        /\ listeners' = [listeners EXCEPT ![n].queued = @ + 1]
        /\ UNCHANGED <<kind, loopPc, loopToWrite, relayPc, relayMsg, writeHolder,
                       deferred, wsClosed, clientGone, annMessageType, sRead>>
        /\ SessFrame

\* The handler enters websocket.Write / websocket.WriteError.
LoopWriteBegin ==
    /\ loopPc = "write"
    /\ WriteLockFree
    /\ writeHolder' = "loop"
    /\ loopPc' = "writing"
    /\ UNCHANGED <<kind, loopToWrite, relayPc, relayMsg, listeners, deferred,
                   wsClosed, clientGone, annMessageType, sRead>>
    /\ SessFrame

\* Where the handler goes after the write of message type t returned ok:
\* the result of WriteError is ignored (continue); a failed Write returns;
\* after the last write on connection the goroutine is started.
AfterWrite(t, ok, rest) ==
    IF t = "error" THEN "read"
    ELSE IF ~ok THEN "return"
    ELSE IF rest # << >> THEN "write"
    ELSE IF relayPc = "notstarted" THEN "spawn"
    ELSE "read"

\* The handler leaves websocket.Write / websocket.WriteError.
LoopWriteEnd ==
    /\ loopPc = "writing"
    /\ writeHolder' = "none"
    /\ \E ok \in WriteResults :
          loopPc' = AfterWrite(Head(loopToWrite), ok, Tail(loopToWrite))
    /\ loopToWrite' = Tail(loopToWrite)
    /\ UNCHANGED <<kind, relayPc, relayMsg, listeners, deferred, wsClosed,
                   clientGone, annMessageType, sRead>>
    /\ SessFrame

\* go func() { ... }()
LoopSpawn ==
    /\ loopPc = "spawn"
    /\ relayPc' = "select"
    /\ loopPc' = "read"
    /\ UNCHANGED <<kind, loopToWrite, relayMsg, writeHolder, listeners, deferred,
                   wsClosed, clientGone, annMessageType, sRead>>
    /\ SessFrame

\* websocket.Read() returns an error (io.EOF or another): the handler returns.
LoopReadError ==
    /\ loopPc = "read"
    /\ clientGone
    /\ loopPc' = "return"
    /\ UNCHANGED <<kind, loopToWrite, relayPc, relayMsg, writeHolder, listeners,
                   deferred, wsClosed, clientGone, annMessageType, sRead>>
    /\ SessFrame

\* The part of every step in which the read loop reads a message and runs
\* the switch: the write the case ends in is made next.
LoopHandled ==
    /\ loopPc = "read"
    /\ ~clientGone
    /\ sRead < MaxSessionMessages
    /\ sRead' = sRead + 1
    /\ loopPc' = "write"
    /\ UNCHANGED <<kind, relayPc, relayMsg, writeHolder, listeners, deferred,
                   wsClosed, clientGone>>

\* The scoring session reads a message and runs its switch (command is the
\* action of the case).
SessionScoring(command) ==
    /\ kind = "scoring"
    /\ LoopHandled
    /\ command
    /\ loopToWrite' = << written' >>
    /\ UNCHANGED <<annMessageType, foulVars, concVars>>

\* The referee session reads a message and runs its switch.
SessionFoul(command) ==
    /\ kind = "foul"
    /\ LoopHandled
    /\ command
    /\ refClient' = 1
    /\ loopToWrite' = << refWritten'[1] >>
    /\ UNCHANGED <<annMessageType, vars, concVars>>

\* The announcer session's switch: it has only the default case.
HandleAnnouncerInvalid ==
    /\ annMessageType' = "invalid"
    /\ loopToWrite' = << "error" >>

\* The announcer session reads a message and runs its switch.
SessionAnnouncer ==
    /\ kind = "announcer"
    /\ LoopHandled
    /\ HandleAnnouncerInvalid
    /\ UNCHANGED <<vars, foulVars, concVars>>

\* The handler returns: its deferred calls run, the last deferred first.
LoopDefer ==
    /\ loopPc = "return"
    /\ IF deferred = << >>
       THEN /\ loopPc' = "done"
            /\ UNCHANGED <<deferred, listeners, wsClosed>>
       ELSE /\ loopPc' = "return"
            /\ deferred' = ButLast(deferred)
            /\ IF Last(deferred) = "websocket.Close"
               THEN wsClosed' = TRUE /\ UNCHANGED listeners
               ELSE /\ listeners' = [listeners EXCEPT ![Last(deferred)].closed = TRUE]
                    /\ UNCHANGED wsClosed
    /\ UNCHANGED <<kind, loopToWrite, relayPc, relayMsg, writeHolder, clientGone,
                   annMessageType, sRead>>
    /\ SessFrame

\* The select of the relay goroutine: a channel that holds a notification
\* yields it; a closed and empty channel yields !ok and the goroutine returns.
RelaySelect ==
    /\ relayPc = "select"
    /\ \E n \in ListenersOf(kind) :
          \/ /\ listeners[n].queued > 0
             /\ listeners' = [listeners EXCEPT ![n].queued = @ - 1]
             /\ relayMsg' = RelayMessage(kind, n)
             /\ relayPc' = "write"
          \/ /\ listeners[n].queued = 0
             /\ listeners[n].closed
             /\ UNCHANGED <<listeners, relayMsg>>
             /\ relayPc' = "done"
    /\ UNCHANGED <<kind, loopPc, loopToWrite, writeHolder, deferred, wsClosed,
                   clientGone, annMessageType, sRead>>
    /\ SessFrame

\* The relay goroutine enters websocket.Write.
RelayWriteBegin ==
    /\ relayPc = "write"
    /\ WriteLockFree
    /\ writeHolder' = "relay"
    /\ relayPc' = "writing"
    /\ UNCHANGED <<kind, loopPc, loopToWrite, relayMsg, listeners, deferred,
                   wsClosed, clientGone, annMessageType, sRead>>
    /\ SessFrame

\* The relay goroutine leaves websocket.Write: on an error it returns.
RelayWriteEnd ==
    /\ relayPc = "writing"
    /\ writeHolder' = "none"
    /\ \E ok \in WriteResults : relayPc' = IF ok THEN "select" ELSE "done"
    /\ UNCHANGED <<kind, loopPc, loopToWrite, relayMsg, listeners, deferred,
                   wsClosed, clientGone, annMessageType, sRead>>
    /\ SessFrame

-----------------------------------------------------------------------------
(* Specifications *)

\* What the scoring session's steps leave alone.
\* Fresh score, empty foul lists, every handler at its read, no session with
\* a relay goroutine.
InitIdle == Init /\ InitFoul /\ InitConc /\ InitNoSession

otherVars == <<foulVars, concVars, sessVars>>

\* The scoring session alone: the referee sessions are idle.
Next ==
    \/ HandlePreload /\ UNCHANGED otherVars
    \/ HandleMobility /\ UNCHANGED otherVars
    \/ HandleScoredHighHot /\ UNCHANGED otherVars
    \/ HandleScoredHigh /\ UNCHANGED otherVars
    \/ HandleScoredLowHot /\ UNCHANGED otherVars
    \/ HandleScoredLow /\ UNCHANGED otherVars
    \/ HandleAssist /\ UNCHANGED otherVars
    \/ HandleTruss /\ UNCHANGED otherVars
    \/ HandleCatch /\ UNCHANGED otherVars
    \/ HandleDeadBall /\ UNCHANGED otherVars
    \/ HandleCommit /\ UNCHANGED otherVars
    \/ HandleCommitMatch /\ UNCHANGED otherVars
    \/ HandleUndo /\ UNCHANGED otherVars
    \/ HandleInvalid /\ UNCHANGED otherVars

Spec == InitIdle /\ [][Next]_vars

\* The referee sessions alone: the scoring session is idle.
NextFoul ==
    \/ HandleAddFoul /\ UNCHANGED <<vars, concVars, sessVars>>
    \/ HandleDeleteFoul /\ UNCHANGED <<vars, concVars, sessVars>>
    \/ HandleFoulCommitMatch /\ UNCHANGED <<vars, concVars, sessVars>>
    \/ HandleFoulInvalid /\ UNCHANGED <<vars, concVars, sessVars>>

SpecFoul == InitIdle /\ [][NextFoul]_foulVars

\* Two scoring connections of one alliance, handled concurrently.
NextConc ==
    \E c \in Conns :
        \/ ConcRead(c)
        \/ ConcAssistGuard(c)
        \/ ConcAssistPush(c)
        \/ ConcAssistLoad(c)
        \/ ConcAssistStore(c)
        \/ ConcUndoGuard(c)
        \/ ConcUndoRestore(c)
        \/ ConcUndoPop(c)
        \/ ConcWrite(c)

SpecConc == InitIdle /\ [][NextConc]_<<vars, concVars>>

\* One session of any kind with its relay goroutine.
NextSession ==
    \/ ClientClose
    \/ Notify
    \/ LoopWriteBegin
    \/ LoopWriteEnd
    \/ LoopSpawn
    \/ LoopReadError
    \/ SessionScoring(HandleAssist)
    \/ SessionScoring(HandleCommitMatch)
    \/ SessionScoring(HandleInvalid)
    \/ SessionFoul(HandleAddFoul)
    \/ SessionFoul(HandleFoulCommitMatch)
    \/ SessionFoul(HandleFoulInvalid)
    \/ SessionAnnouncer
    \/ LoopDefer
    \/ RelaySelect
    \/ RelayWriteBegin
    \/ RelayWriteEnd

allVars == <<vars, foulVars, concVars, sessVars>>

\* A goroutine that can take a step eventually takes one: the relay
\* goroutine, and the handler's goroutine where it does not wait for the
\* client.
SessionFairness ==
    /\ WF_allVars(RelaySelect)
    /\ WF_allVars(RelayWriteBegin)
    /\ WF_allVars(RelayWriteEnd)
    /\ WF_allVars(LoopDefer)
    /\ WF_allVars(LoopReadError)
    /\ WF_allVars(LoopWriteBegin)
    /\ WF_allVars(LoopWriteEnd)
    /\ WF_allVars(LoopSpawn)

\* A session of one of the three kinds has just been opened.
InitOpened == Init /\ InitFoul /\ InitConc /\ InitSession

SpecSession == InitOpened /\ [][NextSession]_allVars /\ SessionFairness

-----------------------------------------------------------------------------
(* Properties *)

Cycles == CurrentScore.Cycles

\* The three counters of balls left over from autonomous.
ClearCounters ==
    <<CurrentScore.AutoClearHigh, CurrentScore.AutoClearLow,
      CurrentScore.AutoClearDead>>

\* Every cycle the score holds: the one in progress and the committed ones.
AllCycles == {CurrentCycle} \cup {Cycles[i] : i \in 1..Len(Cycles)}

\* C1: leftover-ball rule. When "commit" is handled with AutoCommitted,
\* not TeleopCommitted and a current cycle that has an outcome, then with
\* remaining computed before the commit: if remaining > 0, the clear counter
\* of each outcome flag that is set goes up by one, the other clear counters
\* and the committed cycles stay; otherwise the current cycle is appended to
\* the end of the committed cycles and the three clear counters stay.
C1_LeftoverBallRule ==
    [][ ( /\ messageType' = "commit"
          /\ AutoCommitted /\ ~TeleopCommitted
          /\ HasOutcome(CurrentCycle) )
        => LET remaining ==
                   AutoPreloadedBalls
                   - ( CurrentScore.AutoHigh + CurrentScore.AutoHighHot
                       + CurrentScore.AutoLow + CurrentScore.AutoLowHot
                       + CurrentScore.AutoClearHigh + CurrentScore.AutoClearLow
                       + CurrentScore.AutoClearDead )
               Plus(b) == IF b THEN 1 ELSE 0
           IN  IF remaining > 0
               THEN /\ CurrentScore'.AutoClearHigh =
                           CurrentScore.AutoClearHigh + Plus(CurrentCycle.ScoredHigh)
                    /\ CurrentScore'.AutoClearLow =
                           CurrentScore.AutoClearLow + Plus(CurrentCycle.ScoredLow)
                    /\ CurrentScore'.AutoClearDead =
                           CurrentScore.AutoClearDead + Plus(CurrentCycle.DeadBall)
                    /\ CurrentScore'.Cycles = CurrentScore.Cycles
               ELSE /\ CurrentScore'.Cycles =
                           Append(CurrentScore.Cycles, CurrentCycle)
                    /\ ClearCounters' = ClearCounters
      ]_vars

\* A commit in teleop has just counted a scoredHigh cycle as a leftover ball.
C1_Witness ==
    /\ messageType = "commit"
    /\ AutoCommitted /\ ~TeleopCommitted
    /\ CurrentScore.AutoClearHigh = 1
    /\ Cycles = <<>>
    /\ CurrentCycle = EmptyCycle

\* C2: while the phase is AutoOpen, "assist", "truss", "catch" and
\* "deadBall" leave the whole score state unchanged.
C2_WrongPhaseNoOp ==
    [][ ( /\ ~AutoCommitted
          /\ messageType' \in {"assist", "truss", "catch", "deadBall"} )
        => UNCHANGED scoreState
      ]_vars

\* The payload d of a "preload" cannot be parsed as an integer.
Unparsable(d) == ~d.isString \/ ~Atoi(d.chars).ok

\* C3: a "preload" whose payload cannot be parsed as an integer leaves the
\* score state unchanged (the preloaded-ball count keeps its value) and,
\* where the command is in its phase (AutoOpen), is answered with an error.
C3_BadPreloadLeavesState ==
    [][ (messageType' = "preload" /\ Unparsable(data'))
        => /\ UNCHANGED scoreState
           /\ ~AutoCommitted => written' = "error"
      ]_vars

\* C4: every committed cycle has one of ScoredHigh, ScoredLow, DeadBall set.
C4_NoEmptyCycleCommitted ==
    \A i \in 1..Len(Cycles) : HasOutcome(Cycles[i])

\* C5: once TeleopCommitted is true no command changes the autonomous
\* counters, the current cycle, the committed cycles or the commit flags.
C5_ClosedAfterTeleopCommit ==
    [][ TeleopCommitted
        => UNCHANGED <<AutoCommitted, TeleopCommitted, AutoPreloadedBalls,
                       CurrentScore, CurrentCycle>>
      ]_vars

\* C6: "undo" acts on the stack of the current phase: in AutoOpen it pops
\* the auto-undo stack into the AutoScore and changes nothing when that
\* stack is empty; in TeleopOpen it pops the cycle-undo stack into the cycle
\* and changes nothing when that stack is empty; the popped snapshot is the
\* most recently pushed one (last in, first out).
C6_UndoByPhase ==
    [][ messageType' = "undo"
        => IF ~AutoCommitted
           THEN IF undoAutoScores # <<>>
                THEN /\ CurrentScore' = undoAutoScores[Len(undoAutoScores)]
                     /\ undoAutoScores' =
                            SubSeq(undoAutoScores, 1, Len(undoAutoScores) - 1)
                     /\ UNCHANGED <<CurrentCycle, undoCycles>>
                ELSE UNCHANGED scoreState
           ELSE IF ~TeleopCommitted /\ undoCycles # <<>>
                THEN /\ CurrentCycle' = undoCycles[Len(undoCycles)]
                     /\ undoCycles' = SubSeq(undoCycles, 1, Len(undoCycles) - 1)
                     /\ UNCHANGED <<CurrentScore, undoAutoScores>>
                ELSE UNCHANGED scoreState
      ]_vars

\* C7: "commitMatch", in any phase, sets AutoCommitted and TeleopCommitted,
\* appends a current cycle that has an outcome to the committed cycles once,
\* and changes no clear counter, whatever the preloaded-ball count.
C7_CommitMatch ==
    [][ messageType' = "commitMatch"
        => /\ AutoCommitted' /\ TeleopCommitted'
           /\ HasOutcome(CurrentCycle)
                 => CurrentScore'.Cycles = Append(CurrentScore.Cycles, CurrentCycle)
           /\ ClearCounters' = ClearCounters
      ]_vars

\* commitMatch has appended a cycle with an outcome while preloaded balls
\* were still unaccounted for (the leftover-ball check would have fired).
C7_Witness ==
    /\ messageType = "commitMatch"
    /\ Len(Cycles) = 1 /\ Cycles[1] = CurrentCycle
    /\ HasOutcome(CurrentCycle)
    /\ Remaining > 0
    /\ ClearCounters = <<0, 0, 0>>

\* C8: the assist count of the cycle in progress and of every committed
\* cycle is between 0 and 3.
C8_AssistsBounded ==
    \A c \in AllCycles : c.Assists >= 0 /\ c.Assists <= 3

\* A fourth message, an "assist", was handled and the count stands at 3
\* after three pushes.
C8_Witness ==
    /\ messageType = "assist"
    /\ nread = 4
    /\ CurrentCycle.Assists = 3
    /\ Len(undoCycles) = 3

\* Catch implies Truss on the cycle in progress and on every committed cycle.
CatchImpliesTruss == \A c \in AllCycles : c.Catch => c.Truss

\* C9: "catch" issued while Truss is false on the current cycle leaves the
\* score state unchanged, and in every reachable state Catch implies Truss
\* on the current cycle and on every committed cycle.
C9_CatchNeedsTruss ==
    /\ []CatchImpliesTruss
    /\ [][ (messageType' = "catch" /\ ~CurrentCycle.Truss)
           => UNCHANGED scoreState
         ]_vars

\* A "catch" was just handled on a cycle without Truss, after a cycle with
\* Truss and Catch had been committed.
C9_Witness ==
    /\ messageType = "catch"
    /\ ~CurrentCycle.Truss /\ ~CurrentCycle.Catch
    /\ \E i \in 1..Len(Cycles) : Cycles[i].Catch /\ Cycles[i].Truss

\* At most one of the three outcome flags of c is set.
AtMostOneOutcome(c) ==
    /\ ~(c.ScoredHigh /\ c.ScoredLow)
    /\ ~(c.ScoredHigh /\ c.DeadBall)
    /\ ~(c.ScoredLow /\ c.DeadBall)

\* C10: at most one of ScoredHigh, ScoredLow, DeadBall is true on the
\* current cycle and on every committed cycle.
C10_OutcomeExclusive ==
    \A c \in AllCycles : AtMostOneOutcome(c)

\* "scoredHigh" has just replaced a DeadBall outcome on the current cycle.
C10_Witness ==
    /\ messageType = "scoredHigh"
    /\ CurrentCycle.ScoredHigh
    /\ undoCycles # <<>>
    /\ undoCycles[Len(undoCycles)].DeadBall

\* The message types the switch of the scoring session has a case for.
ScoringCommands ==
    {"preload", "mobility", "scoredHighHot", "scoredHigh", "scoredLowHot",
     "scoredLow", "assist", "truss", "catch", "deadBall", "commit",
     "commitMatch", "undo"}

\* C17: after every recognized scoring command that is handled without a
\* parse error, whether or not it changed the state, the session writes a
\* "score" message whose content is the RealtimeScore as it is after the
\* command; and a connection that has read no command yet has been sent
\* the current score.
C17_ScoreEchoed ==
    /\ [](nread = 0 =>
            /\ written = "score"
            /\ message.CurrentScore = CurrentScore
            /\ message.CurrentCycle = CurrentCycle
            /\ message.AutoPreloadedBalls = AutoPreloadedBalls
            /\ message.AutoCommitted = AutoCommitted
            /\ message.TeleopCommitted = TeleopCommitted)
    /\ [][ ( /\ messageType' \in ScoringCommands
             /\ ~(messageType' = "preload" /\ ~AutoCommitted /\ Unparsable(data')) )
           => /\ written' = "score"
              /\ message'.CurrentScore = CurrentScore'
              /\ message'.CurrentCycle = CurrentCycle'
              /\ message'.AutoPreloadedBalls = AutoPreloadedBalls'
              /\ message'.AutoCommitted = AutoCommitted'
              /\ message'.TeleopCommitted = TeleopCommitted'
         ]_vars

\* An "assist" that changed the cycle was answered with the new score.
C17_Witness ==
    /\ messageType = "assist"
    /\ written = "score"
    /\ CurrentCycle.Assists = 2
    /\ message.CurrentCycle.Assists = 2
    /\ Len(undoCycles) = 2 /\ nread = 2

\* C19: once AutoCommitted is true it stays true, and no command changes
\* the preloaded-ball count, the mobility-bonus count or the four
\* autonomous scored counters, nor pops the auto-undo stack.
C19_AutoClosed ==
    [][ AutoCommitted
        => /\ AutoCommitted'
           /\ AutoPreloadedBalls' = AutoPreloadedBalls
           /\ CurrentScore'.AutoMobilityBonuses = CurrentScore.AutoMobilityBonuses
           /\ CurrentScore'.AutoHigh = CurrentScore.AutoHigh
           /\ CurrentScore'.AutoHighHot = CurrentScore.AutoHighHot
           /\ CurrentScore'.AutoLow = CurrentScore.AutoLow
           /\ CurrentScore'.AutoLowHot = CurrentScore.AutoLowHot
           /\ undoAutoScores' = undoAutoScores
      ]_vars

\* An "undo" was handled in TeleopOpen while the auto-undo stack still held
\* a snapshot.
C19_Witness ==
    /\ messageType = "undo"
    /\ AutoCommitted /\ ~TeleopCommitted
    /\ undoAutoScores # <<>>
    /\ CurrentScore.AutoHigh = 1

\* C20: all AutoScore counters are >= 0: the preloaded-ball count, the
\* mobility-bonus count, the four scored counters and the three clear
\* counters.
C20_CountersNonNegative ==
    /\ AutoPreloadedBalls >= 0
    /\ CurrentScore.AutoMobilityBonuses >= 0
    /\ CurrentScore.AutoHigh >= 0 /\ CurrentScore.AutoHighHot >= 0
    /\ CurrentScore.AutoLow >= 0 /\ CurrentScore.AutoLowHot >= 0
    /\ CurrentScore.AutoClearHigh >= 0 /\ CurrentScore.AutoClearLow >= 0
    /\ CurrentScore.AutoClearDead >= 0

-----------------------------------------------------------------------------
(* Properties of the referee session *)

\* C11: "deleteFoul" for the red or blue alliance removes exactly the first
\* entry of that alliance's foul list that equals the given foul in all four
\* fields: the list gets one shorter and the other entries keep their order;
\* when no entry is equal, both lists are unchanged.
C11_DeleteFirstEqual ==
    [][ ( /\ refMessageType' = "deleteFoul"
          /\ refData'.decodes
          /\ refData'.Alliance \in Alliances )
        => LET a    == refData'.Alliance
               f    == refData'.Foul
               old  == Fouls[a]
               new  == Fouls'[a]
               Same(x, y) == /\ x.TeamId = y.TeamId
                             /\ x.Rule = y.Rule
                             /\ x.IsTechnical = y.IsTechnical
                             /\ x.TimeInMatchSec = y.TimeInMatchSec
           IN  IF \E i \in 1..Len(old) : Same(old[i], f)
               THEN /\ Len(new) = Len(old) - 1
                    /\ \E i \in 1..Len(old) :
                          /\ Same(old[i], f)
                          /\ \A j \in 1..(i - 1) : ~Same(old[j], f)
                          /\ \A j \in 1..(i - 1) : new[j] = old[j]
                          /\ \A j \in i..Len(new) : new[j] = old[j + 1]
                    /\ \A b \in Alliances \ {a} : Fouls'[b] = Fouls[b]
               ELSE Fouls' = Fouls
      ]_foulVars

\* The first of two equal fouls was deleted from the red list: the foul
\* entered between them is now first and the second equal foul follows it.
C11_Witness ==
    /\ refMessageType = "deleteFoul"
    /\ refData.decodes
    /\ refData.Alliance = "red"
    /\ refData.Foul = Foul(1, "G3", FALSE, 0)
    /\ Fouls["red"] = << Foul(1, "G3", FALSE, 1), Foul(1, "G3", FALSE, 0) >>
    /\ refRead = 4

\* C12: one "commitMatch" on a referee session sets FoulsCommitted on both
\* the red and the blue RealtimeScore, and once set it is never reset.
C12_FoulsCommittedBoth ==
    /\ [][ refMessageType' = "commitMatch"
           => FoulsCommitted'["red"] /\ FoulsCommitted'["blue"] ]_foulVars
    /\ [][ \A a \in Alliances : FoulsCommitted[a] => FoulsCommitted'[a] ]_foulVars

\* Both flags are set and a later command was handled with them still set.
C12_Witness ==
    /\ FoulsCommitted["red"] /\ FoulsCommitted["blue"]
    /\ refMessageType = "addFoul"
    /\ refData.decodes

\* The last step handled a referee command whose payload decoded.
FoulCommandHandled ==
    \/ refMessageType' \in {"addFoul", "deleteFoul"} /\ refData'.decodes
    \/ refMessageType' = "commitMatch"

\* The last step met a decode failure.
FoulDecodeFailed ==
    refMessageType' \in {"addFoul", "deleteFoul"} /\ ~refData'.decodes

\* C14 as claimed: every referee command handled without a decode failure
\* delivers a "reload" to every connected referee connection; a decode
\* failure produces an error message only.
C14_ReloadToAll ==
    [][ /\ FoulCommandHandled
           => \A c \in RefClients : refReloads'[c] = refReloads[c] + 1
        /\ FoulDecodeFailed
           => /\ refReloads' = refReloads
              /\ refWritten'[refClient'] = "error"
      ]_foulVars

\* C14 as amended: every referee command handled without a decode failure
\* writes one "reload" to the connection that sent it and nothing to the
\* other referee connections; a decode failure produces an error message to
\* the sender only.
C14_ReloadToSender ==
    [][ /\ FoulCommandHandled
           => /\ refReloads'[refClient'] = refReloads[refClient'] + 1
              /\ refWritten'[refClient'] = "reload"
              /\ \A c \in RefClients \ {refClient'} :
                    /\ refReloads'[c] = refReloads[c]
                    /\ refWritten'[c] = refWritten[c]
        /\ FoulDecodeFailed
           => /\ refReloads' = refReloads
              /\ refWritten'[refClient'] = "error"
              /\ \A c \in RefClients \ {refClient'} : refWritten'[c] = refWritten[c]
      ]_foulVars

\* Connection 1 had a deleteFoul that changed nothing answered by a reload
\* while connection 2 has been written nothing.
C14_Witness ==
    /\ refClient = 1
    /\ refMessageType = "deleteFoul" /\ refData.decodes
    /\ Fouls = [a \in Alliances |-> <<>>]
    /\ refReloads[1] = 1 /\ refWritten[1] = "reload"
    /\ refReloads[2] = 0 /\ refWritten[2] = "none"

-----------------------------------------------------------------------------
(* Properties of concurrent scoring connections *)

\* The score states that "assist" and "undo" commands handled one whole
\* command after the other produce from a fresh score: k assists, k <= 3,
\* and the snapshots with 0 .. k-1 assists on the cycle-undo stack.
SequentialAssistState ==
    /\ CurrentCycle.Assists >= 0 /\ CurrentCycle.Assists <= 3
    /\ CurrentCycle = [EmptyCycle EXCEPT !.Assists = CurrentCycle.Assists]
    /\ Len(undoCycles) = CurrentCycle.Assists
    /\ \A i \in 1..Len(undoCycles) :
          undoCycles[i] = [EmptyCycle EXCEPT !.Assists = i - 1]

\* C15: commands of concurrent scoring connections of one alliance are
\* serialized: whenever no handler is in the middle of a command, the score
\* state is one that some sequential order of the whole commands produces,
\* and no handler has failed in the middle of a command.
C15_Serialized ==
    /\ \A c \in Conns : cpc[c] # "panicked"
    /\ (\A c \in Conns : cpc[c] = "read") => SequentialAssistState

-----------------------------------------------------------------------------
(* Properties of a session with its relay goroutine *)

\* The last step read a message whose type the session's switch has no
\* case for.
UnknownTypeRead ==
    /\ sRead' = sRead + 1
    /\ \/ kind = "scoring" /\ messageType' \notin ScoringCommands
       \/ kind = "foul" /\ refMessageType' \notin {"addFoul", "deleteFoul", "commitMatch"}
       \/ kind = "announcer" /\ annMessageType' = "invalid"

\* C13: a message of unknown type on a scoring, foul or announcer session
\* makes the handler write an error message and nothing else, changes no
\* score and no foul state and does not end the session: whatever the result
\* of the error write, the handler is next at the read of the following
\* message with no "score" or "reload" left to write.
C13_UnknownType ==
    /\ [][UnknownTypeRead =>
            /\ loopToWrite' = << "error" >>
            /\ loopPc' = "write"
            /\ UNCHANGED <<scoreState, Fouls, FoulsCommitted>>]_allVars
    /\ [][(loopPc = "writing" /\ loopPc' # "writing" /\ Head(loopToWrite) = "error") =>
            /\ loopPc' = "read"
            /\ loopToWrite' = << >>]_allVars

\* An announcer session that answered an unknown message with an error, read
\* a second one and is again waiting for a message on the open connection.
C13_Witness ==
    /\ kind = "announcer"
    /\ annMessageType = "invalid"
    /\ sRead = 2
    /\ loopPc = "read"
    /\ loopToWrite = << >>
    /\ ~clientGone /\ ~wsClosed

ListenersClosed == \A n \in ListenersOf(kind) : listeners[n].closed

\* The relay goroutine is not running.
RelayTerminated == relayPc \in {"notstarted", "done"}

\* C18: once the handler of a scoring, foul or announcer session returns
\* (the read failed, on a clean close or a transport error, or a write
\* failed), it closes every listener it registered, and the relay goroutine
\* eventually terminates.
C18_TeardownEndsRelay ==
    /\ [](loopPc = "done" => ListenersClosed)
    /\ (loopPc = "return") ~> (loopPc = "done" /\ ListenersClosed /\ RelayTerminated)

\* An announcer session whose client closed the connection: the handler has
\* returned, its three listeners are closed and the relay goroutine, which
\* was started, has returned.
C18_Witness ==
    /\ kind = "announcer"
    /\ clientGone
    /\ loopPc = "done"
    /\ deferred = << >>
    /\ ListenersClosed
    /\ relayPc = "done"

=============================================================================
